---- MODULE Spec2Model ----
(***************************************************************************)
(* A model of the acquiring-bank simulator: the ledger (Bank), the         *)
(* registry of payment sessions (ActivePayments), the per-session watchdog,*)
(* the request handlers that tie them together, and the request tokens.    *)
(*                                                                         *)
(* Granularity.  Every handler is cut at its suspension points: each       *)
(* acquisition of the bank mutex (tokio Mutex, `lock().await`) or of the   *)
(* registry mutex (std Mutex) starts a new atomic step, and what the code  *)
(* does while it holds the guard is one step, since a guard is never held  *)
(* across an await.  Handlers of different requests interleave freely      *)
(* between steps (multi-worker runtime).                                   *)
(***************************************************************************)
EXTENDS Integers, Sequences, FiniteSets, TLC

\* ───── Bounds ──────────────────────────────────────────────────────────── \*

\* regular accounts that add_account may create
MaxAccounts == 2
\* payment sessions that init_payment may create: in all, and in the
\* specification of the whole payment flow
MaxSessions == 3
FlowSessions == 1
\* payment sessions in the specification with fair scheduling
ExpirySessions == 2
\* largest amount a request carries; the smallest is MinAmount
MaxAmount == 2
\* trigger_payment requests that arrive: in all, and in the specification
\* of the registry
NumConfirms == 2
RegConfirms == 1
\* regular accounts in the specification of the registry
RegAccounts == 1
\* raw /transaction requests that arrive
NumTransfers == 2
\* /credit requests that arrive
NumCredits == 1

\* ───── Values ──────────────────────────────────────────────────────────── \*

NoVal == "none"

\* i64 amounts a request may carry: negative, zero and positive ones
MinAmount == 0 - 1
Amounts == MinAmount..MaxAmount

\* Strings are sequences of one-character strings.

\* shared secrets: the terminal password of the settings, and others that
\* a merchant may sign with
NumSecrets == 2
SecretPool == << <<"s">>, <<"t">>, <<"s", "t">> >>
Secrets == {SecretPool[i] : i \in 1..NumSecrets}
TerminalPassword == SecretPool[1]

\* the passwords that requests carry: add_account is given one of
\* NewPasswords, a cardholder types one of Passwords; the cashbox password
\* that Application::build hands to Bank::new is the terminal password
NewPasswords == {<<"p">>}
Passwords == {<<"p">>, <<"q">>}
CashboxPass == TerminalPassword

\* CardNumber::generate(): a fresh, globally unique card number.  Cards 1
\* and 2 are drawn at construction, the k-th add_account draws card k + 2.
EmissionCard == 1
StoreCard == 2
GenerateCard(accs) == Len(accs) + 3
AllCards == 1..(MaxAccounts + 2)

emission_account ==
    [card_number |-> EmissionCard, password |-> CashboxPass, is_existing |-> TRUE]
store_account ==
    [card_number |-> StoreCard, password |-> CashboxPass, is_existing |-> TRUE]

\* the value of a local of type Account that holds no account yet
NoAccount == [card_number |-> 0, password |-> <<>>, is_existing |-> FALSE]

\* impl PartialEq for Account: accounts are equal when their cards are
AccountEq(a, b) == a.card_number = b.card_number

ConfirmIds == 1..NumConfirms
TransferIds == 1..NumTransfers
CreditIds == 1..NumCredits
SessionIds == 1..MaxSessions

\* the tasks whose locking is followed
NumTasks == 3
TaskIds == 1..NumTasks

VARIABLES
    accounts,         \* BankInner.accounts: Vec<Account>
    transactions,     \* BankInner.transactions: Vec<Transaction>
    active_payments,  \* ActivePayments: Vec<ActivePayment>
    watchdog,         \* per session id: the watchdog task's position
    confirm,          \* per trigger_payment request: position and locals
    transfer,         \* per /transaction request: position and locals
    credit,           \* per /credit request: position and locals
    last              \* the operation that acted last, with its answer

vars == <<accounts, transactions, active_payments, watchdog, confirm,
          transfer, credit, last>>

\* ───── Bank: pure parts ────────────────────────────────────────────────── \*

\* a fold that counts what the account receives and ignores what it sends
RECURSIVE BalanceFold_received_only(_, _, _)
BalanceFold_received_only(txs, account, amount) ==
    IF txs = <<>> THEN amount
    ELSE LET transaction == Head(txs) IN
         BalanceFold_received_only(Tail(txs), account,
             IF AccountEq(transaction.recipient, account)
             THEN amount + transaction.amount ELSE amount)

\* Bank::balance: the fold over the log; a transaction counts negatively
\* when the account is its sender, positively when it is (only) recipient.
RECURSIVE BalanceFold(_, _, _)
BalanceFold(txs, account, amount) ==
    IF txs = <<>> THEN amount
    ELSE LET transaction == Head(txs) IN
         IF AccountEq(transaction.sender, account)
            \/ AccountEq(transaction.recipient, account)
         THEN BalanceFold(Tail(txs), account,
                          IF AccountEq(transaction.sender, account)
                          THEN amount - transaction.amount
                          ELSE amount + transaction.amount)
         ELSE BalanceFold(Tail(txs), account, amount)

balance(txs, account) == BalanceFold(txs, account, 0)

\* Bank::store_balance and Bank::bank_emission: balance of the two
\* accounts the bank holds outside its collection
store_balance(txs) == balance(txs, store_account)
bank_emission(txs) == balance(txs, emission_account)

\* Bank::list_accounts: every account of the collection with its balance
list_accounts(accs, txs) ==
    [i \in 1..Len(accs) |->
        [card_number |-> accs[i].card_number,
         balance |-> balance(txs, accs[i]),
         exists |-> accs[i].is_existing]]

\* the first account of the collection with that card, as iter().find()
AccountIndex(accs, card) ==
    LET hits == {i \in 1..Len(accs) : accs[i].card_number = card}
    IN IF hits = {} THEN 0 ELSE CHOOSE i \in hits : \A j \in hits : i <= j

\* find_account without its check of is_existing
find_account_any(accs, card) ==
    LET i == AccountIndex(accs, card) IN
    IF i = 0 THEN [ok |-> FALSE, err |-> "AccountNotFound", account |-> NoAccount]
    ELSE [ok |-> TRUE, err |-> NoVal, account |-> accs[i]]

\* find_account that also looks at the emission and the store account
find_account_bootstrap(accs, card) ==
    LET i == AccountIndex(accs, card) IN
    IF card = EmissionCard
    THEN [ok |-> TRUE, err |-> NoVal, account |-> emission_account]
    ELSE IF card = StoreCard
    THEN [ok |-> TRUE, err |-> NoVal, account |-> store_account]
    ELSE IF i = 0
    THEN [ok |-> FALSE, err |-> "AccountNotFound", account |-> NoAccount]
    ELSE IF ~accs[i].is_existing
    THEN [ok |-> FALSE, err |-> "AccountIsDeleted", account |-> NoAccount]
    ELSE [ok |-> TRUE, err |-> NoVal, account |-> accs[i]]

\* Bank::find_account: [ok, account] or [ok |-> FALSE, err]
find_account(accs, card) ==
    LET i == AccountIndex(accs, card) IN
    IF i = 0 THEN [ok |-> FALSE, err |-> "AccountNotFound", account |-> NoAccount]
    ELSE IF ~accs[i].is_existing
         THEN [ok |-> FALSE, err |-> "AccountIsDeleted", account |-> NoAccount]
         ELSE [ok |-> TRUE, err |-> NoVal, account |-> accs[i]]

\* delete_account that flips the flag of the account instead of clearing it
delete_account_toggle(accs, card) ==
    LET i == AccountIndex(accs, card) IN
    IF i = 0 THEN [accounts |-> accs, result |-> "AccountNotFound"]
    ELSE [accounts |-> [accs EXCEPT ![i].is_existing = ~accs[i].is_existing],
          result |-> "Ok"]

\* delete_account that takes the account out of the collection
delete_account_remove(accs, card) ==
    IF AccountIndex(accs, card) = 0
    THEN [accounts |-> accs, result |-> "AccountNotFound"]
    ELSE [accounts |-> SelectSeq(accs, LAMBDA acc : acc.card_number # card),
          result |-> "Ok"]

\* Bank::delete_account: the first account with the card is marked as
\* deleted; [accounts, result]
delete_account(accs, card) ==
    LET i == AccountIndex(accs, card) IN
    IF i = 0 THEN [accounts |-> accs, result |-> "AccountNotFound"]
    ELSE [accounts |-> [accs EXCEPT ![i].is_existing = FALSE],
          result |-> "Ok"]

\* authorize_account that compares the password before it looks at
\* is_existing
authorize_account_password_first(accs, card, password) ==
    LET i == AccountIndex(accs, card) IN
    IF i = 0 THEN [ok |-> FALSE, err |-> "AccountNotFound", account |-> NoAccount]
    ELSE IF accs[i].password # password
         THEN [ok |-> FALSE, err |-> "NotAuthorized", account |-> NoAccount]
         ELSE find_account(accs, card)

\* Bank::authorize_account: find_account, then the password comparison
authorize_account(accs, card, password) ==
    LET found == find_account(accs, card) IN
    IF ~found.ok THEN found
    ELSE IF found.account.password # password
         THEN [ok |-> FALSE, err |-> "NotAuthorized", account |-> NoAccount]
         ELSE found

\* new_transaction without its comparison of sender and recipient
new_transaction_result_self(txs, sender, recipient, amount) ==
    IF balance(txs, sender) < amount THEN "NotEnoughFunds"
    ELSE IF amount <= 0 THEN "BadTransaction"
    ELSE "Ok"

\* new_transaction without its check of the sender's balance
new_transaction_result_unchecked(txs, sender, recipient, amount) ==
    IF AccountEq(sender, recipient) THEN "BadTransaction"
    ELSE IF amount <= 0 THEN "BadTransaction"
    ELSE "Ok"

\* Bank::new_transaction, the answer it gives on a log
new_transaction_result(txs, sender, recipient, amount) ==
    IF AccountEq(sender, recipient) THEN "BadTransaction"
    ELSE IF balance(txs, sender) < amount THEN "NotEnoughFunds"
    ELSE IF amount <= 0 THEN "BadTransaction"
    ELSE "Ok"

\* new_transaction that pushes whatever its answer is
new_transaction_log_always(txs, sender, recipient, amount) ==
    Append(txs, [sender |-> sender, recipient |-> recipient,
                 amount |-> amount])

\* new_transaction that pushes when the sender lacks the funds
new_transaction_log_unfunded(txs, sender, recipient, amount) ==
    IF new_transaction_result(txs, sender, recipient, amount)
           \in {"Ok", "NotEnoughFunds"}
    THEN Append(txs, [sender |-> sender, recipient |-> recipient,
                      amount |-> amount])
    ELSE txs

\* Bank::new_transaction, the log it leaves
new_transaction_log(txs, sender, recipient, amount) ==
    IF new_transaction_result(txs, sender, recipient, amount) = "Ok"
    THEN Append(txs, [sender |-> sender, recipient |-> recipient,
                      amount |-> amount])
    ELSE txs

\* ───── Tokens ──────────────────────────────────────────────────────────── \*

\* url::Url accepts any `scheme:rest`; a Url holds its serialization and
\* to_string() returns it.  UrlPool lists such serializations, Urls are the
\* first NumUrls of them.
NumUrls == 3
UrlPool == << <<"a", ":">>, <<"a", ":", "a">>, <<"a", "a", ":">>,
              <<"a", ":", ":">>, <<"a", "a", ":", "a">> >>
Urls == {UrlPool[i] : i \in 1..NumUrls}

\* beneficiaries of a split payment: card tokens with their parts (percent)
BeneficiariesSet == {<<>>, <<[card_token |-> <<"c">>, part |-> 100]>>}

Digits == <<"0", "1", "2", "3", "4", "5", "6", "7", "8", "9">>

\* i64::to_string for a natural number
RECURSIVE NatToString(_)
NatToString(n) ==
    IF n < 10 THEN <<Digits[n + 1]>>
    ELSE NatToString(n \div 10) \o <<Digits[(n % 10) + 1]>>

\* i64::to_string
I64ToString(n) == IF n < 0 THEN <<"-">> \o NatToString(0 - n) ELSE NatToString(n)

\* Beneficiaries::as_str: the card tokens, folded into one string
RECURSIVE BeneficiariesAsStr(_)
BeneficiariesAsStr(bs) ==
    IF bs = <<>> THEN <<>>
    ELSE Head(bs).card_token \o BeneficiariesAsStr(Tail(bs))

\* the keys of the token map in BTreeMap (lexicographic) order
TokenKeys == <<"amount", "beneficiaries", "fail_url", "notification_url",
               "password", "success_url">>

\* the BTreeMap that generate_token fills
TokenMap(req, cashbox_password) ==
    LET base == [k \in {"notification_url", "success_url", "fail_url",
                        "amount", "password"} |->
                    CASE k = "notification_url" -> req.notification_url
                      [] k = "success_url" -> req.success_url
                      [] k = "fail_url" -> req.fail_url
                      [] k = "amount" -> I64ToString(req.amount)
                      [] k = "password" -> cashbox_password]
    IN IF req.beneficiaries # <<>>
       THEN [k \in DOMAIN base \cup {"beneficiaries"} |->
                IF k = "beneficiaries"
                THEN BeneficiariesAsStr(req.beneficiaries) ELSE base[k]]
       ELSE base

\* token_map.into_values().collect(): the values in key order, no separator
RECURSIVE ConcatValues(_, _)
ConcatValues(map, keys) ==
    IF keys = <<>> THEN <<>>
    ELSE (IF Head(keys) \in DOMAIN map THEN map[Head(keys)] ELSE <<>>)
         \o ConcatValues(map, Tail(keys))

\* SHA-256 and its hex form, idealised as collision free: the digest of a
\* string is represented by the string itself
Sha256Hex(str) == str

\* generate_token that signs the token field with the others
generate_token_with_token(req, cashbox_password) ==
    Sha256Hex(ConcatValues(TokenMap(req, cashbox_password), TokenKeys)
              \o req.token)

\* InitPaymentRequest::generate_token
generate_token(req, cashbox_password) ==
    Sha256Hex(ConcatValues(TokenMap(req, cashbox_password), TokenKeys))

\* Tokenizable::validate_token
validate_token(req, password) ==
    IF generate_token(req, password) = req.token THEN "Ok" ELSE "Err"

\* InitPaymentRequest::new
NewInitPaymentRequest(notification_url, success_url, fail_url, amount, cashbox_password, beneficiaries) ==
    LET req == [notification_url |-> notification_url,
                success_url |-> success_url,
                fail_url |-> fail_url,
                amount |-> amount,
                token |-> <<>>,
                beneficiaries |-> beneficiaries]
    IN [req EXCEPT !.token = generate_token(req, cashbox_password)]

\* the two crates that define RegisterCardTokenRequest
Apis == {"acquisim-api", "banksim-api"}

\* the BTreeMap that RegisterCardTokenRequest::generate_token fills: in
\* acquisim-api the notification_url and the password, in banksim-api the
\* three URLs and the password
RegisterCardTokenMap(req, cashbox_password) ==
    IF req.api = "acquisim-api"
    THEN [k \in {"notification_url", "password"} |->
             IF k = "notification_url" THEN req.notification_url
             ELSE cashbox_password]
    ELSE [k \in {"notification_url", "fail_url", "success_url", "password"} |->
             CASE k = "notification_url" -> req.notification_url
               [] k = "fail_url" -> req.fail_url
               [] k = "success_url" -> req.success_url
               [] k = "password" -> cashbox_password]

\* RegisterCardTokenRequest::generate_token
RegisterCardToken_generate_token(req, cashbox_password) ==
    Sha256Hex(ConcatValues(RegisterCardTokenMap(req, cashbox_password),
                           TokenKeys))

\* impl Tokenizable for RegisterCardTokenRequest: validate_token
RegisterCardToken_validate_token(req, password) ==
    IF RegisterCardToken_generate_token(req, password) = req.token
    THEN "Ok" ELSE "Err"

\* RegisterCardTokenRequest::new
NewRegisterCardTokenRequest(api, notification_url, success_url, fail_url, cashbox_password) ==
    LET req == [api |-> api,
                notification_url |-> notification_url,
                fail_url |-> fail_url,
                success_url |-> success_url,
                token |-> <<>>]
    IN [req EXCEPT !.token = RegisterCardToken_generate_token(req,
                                                              cashbox_password)]

\* ───── ActivePayments: pure parts ───────────────────────────────────────── \*

\* the position of the first session with that id, 0 when there is none
PaymentIndex(ps, id) ==
    LET hits == {i \in 1..Len(ps) : ps[i].id = id}
    IN IF hits = {} THEN 0 ELSE CHOOSE i \in hits : \A j \in hits : i <= j

\* a removal that drops the last element, whatever the position
swap_remove_last(ps, pos) == SubSeq(ps, 1, Len(ps) - 1)

\* Vec::swap_remove: the last element takes the place of the removed one
swap_remove(ps, pos) ==
    IF pos = Len(ps) THEN SubSeq(ps, 1, Len(ps) - 1)
    ELSE [SubSeq(ps, 1, Len(ps) - 1) EXCEPT ![pos] = ps[Len(ps)]]

\* ActivePayments::create_payment, with the id that Uuid::new_v4 drew
create_payment(ps, request, store_card, id) ==
    Append(ps, [request |-> request, store_card |-> store_card, id |-> id])

\* remove_payment that finds nothing to remove
remove_payment_none(ps, id) == ps

\* ActivePayments::remove_payment: the registry it leaves
remove_payment(ps, id) ==
    LET pos == PaymentIndex(ps, id) IN
    IF pos # 0 THEN swap_remove(ps, pos) ELSE ps

\* ActivePayments::remove_payment: its answer
remove_payment_result(ps, id) == "Ok"

\* the value of a local of type ActivePayment that holds no session yet
NoPayment ==
    [request |-> [notification_url |-> <<>>, success_url |-> <<>>,
                  fail_url |-> <<>>, amount |-> 0, token |-> <<>>,
                  beneficiaries |-> <<>>],
     store_card |-> 0, id |-> 0]

\* try_acquire_payment that makes up a session for an id it does not find
try_acquire_payment_absent(ps, id) ==
    LET pos == PaymentIndex(ps, id) IN
    IF pos # 0 THEN [ok |-> TRUE, payment |-> ps[pos]]
    ELSE [ok |-> TRUE, payment |-> [NoPayment EXCEPT !.id = id]]

\* ActivePayments::try_acquire_payment: a clone of the session, which stays
try_acquire_payment(ps, id) ==
    LET pos == PaymentIndex(ps, id) IN
    IF pos # 0 THEN [ok |-> TRUE, payment |-> ps[pos]]
    ELSE [ok |-> FALSE, payment |-> NoPayment]

\* the ids of the sessions in the registry
PaymentIds(ps) == {ps[i].id : i \in 1..Len(ps)}

\* self.0.lock().map_err(MutexError): the lock of a poisoned mutex fails
lock(is_poisoned) == IF is_poisoned THEN "MutexError" ELSE "Ok"

\* create_payment, remove_payment and try_acquire_payment as their callers
\* see them, the lock included: with the error of the lock nothing is done
locked_create_payment(is_poisoned, ps, request, store_card, id) ==
    IF lock(is_poisoned) # "Ok" THEN ps
    ELSE create_payment(ps, request, store_card, id)

locked_remove_payment(is_poisoned, ps, id) ==
    IF lock(is_poisoned) # "Ok" THEN ps ELSE remove_payment(ps, id)

locked_remove_payment_result(is_poisoned, ps, id) ==
    IF lock(is_poisoned) # "Ok" THEN lock(is_poisoned)
    ELSE remove_payment_result(ps, id)

locked_try_acquire_payment(is_poisoned, ps, id) ==
    IF lock(is_poisoned) # "Ok" THEN [ok |-> FALSE, payment |-> NoPayment]
    ELSE try_acquire_payment(ps, id)

\* impl IntoResponse for ApiError: the status of each error of init_payment
ApiError_into_response(error) ==
    CASE error = "MutexLockError" -> "INTERNAL_SERVER_ERROR"
      [] error = "BankOperationError" -> "BAD_REQUEST"
      [] error = "UnauthorizedError" -> "Unauthorized"
      [] error = "UnexpectedError" -> "INTERNAL_SERVER_ERROR"
      [] error = "ActivePaymentsError" -> "NOT_FOUND"
      [] error = "UrlParsingError" -> "INTERNAL_SERVER_ERROR"

\* ───── State ───────────────────────────────────────────────────────────── \*

VARIABLES
    tok_pc,      \* token check: "new", "signed" or "validated"
    tok_req,     \* the request as it travels
    tok_signed,  \* the request as InitPaymentRequest::new built it
    tok_secret,  \* the secret it was signed with
    tok_check    \* the secret validate_token was called with, and its answer

tokvars == <<tok_pc, tok_req, tok_signed, tok_secret, tok_check>>

VARIABLES
    poisoned,        \* the std Mutex of ActivePayments is poisoned
    timer,           \* per session id: the clock of its watchdog task
    bank_guard,      \* the task that holds the lock of Bank, or 0
    registry_guard,  \* the task that holds the lock of ActivePayments, or 0
    task             \* per task: its operation and its position in it

auxvars == <<poisoned, timer, bank_guard, registry_guard, task>>
allvars == <<vars, tokvars, auxvars>>

\* the URLs of the requests that reach init_payment
NotificationUrl == UrlPool[1]
SuccessUrl == UrlPool[2]
FailUrl == UrlPool[3]

IdleConfirm ==
    [pc |-> "idle", payment_id |-> 0, card |-> 0, password |-> <<>>,
     payment |-> NoPayment, account |-> NoAccount, result |-> NoVal]
IdleTransfer ==
    [pc |-> "idle", from |-> 0, to |-> 0, amount |-> 0, sender |-> NoAccount,
     receiver |-> NoAccount, result |-> NoVal]
IdleCredit ==
    [pc |-> "idle", card |-> 0, amount |-> 0, account |-> NoAccount,
     result |-> NoVal]

\* a watchdog task that has not computed its interval yet
IdleTimer == [pc |-> "spawned", interval |-> 0, left |-> 0, slept |-> 0]

\* a task that has not been given its operation
IdleTask == [op |-> NoVal, at |-> 0]

TokIdle ==
    /\ tok_pc = "off"
    /\ tok_req = NoVal
    /\ tok_signed = NoVal
    /\ tok_secret = NoVal
    /\ tok_check = NoVal

\* Bank::new and ActivePayments::new; no request has arrived
BankInit ==
    /\ accounts = <<>>
    /\ transactions = <<>>
    /\ active_payments = <<>>
    /\ watchdog = [id \in SessionIds |-> "none"]
    /\ confirm = [c \in ConfirmIds |-> IdleConfirm]
    /\ transfer = [x \in TransferIds |-> IdleTransfer]
    /\ credit = [k \in CreditIds |-> IdleCredit]
    /\ last = [op |-> NoVal, result |-> NoVal, id |-> 0]

\* no lock is held or poisoned, no watchdog has looked at its clock and
\* no task has started
AuxInit ==
    /\ poisoned = FALSE
    /\ timer = [id \in SessionIds |-> IdleTimer]
    /\ bank_guard = 0
    /\ registry_guard = 0
    /\ task = [t \in TaskIds |-> IdleTask]

Init == BankInit /\ TokIdle /\ AuxInit

\* ───── Administrative operations (routes/system.rs) ────────────────────── \*

\* POST /account: Bank::add_account
AddAccount(password) ==
    /\ Len(accounts) < MaxAccounts
    /\ accounts' = Append(accounts, [card_number |-> GenerateCard(accounts),
                                     password |-> password,
                                     is_existing |-> TRUE])
    /\ UNCHANGED <<transactions, active_payments, watchdog, confirm,
                   transfer, credit, last, tokvars, auxvars>>

\* delete_account that also drops the transactions of the account
DeleteAccount_purge(card) ==
    LET i == AccountIndex(accounts, card) IN
    /\ accounts' = IF i # 0 THEN [accounts EXCEPT ![i].is_existing = FALSE]
                   ELSE accounts
    /\ transactions' =
           SelectSeq(transactions,
                     LAMBDA tx : /\ tx.sender.card_number # card
                                 /\ tx.recipient.card_number # card)
    /\ last' = [op |-> "delete_account",
                result |-> IF i # 0 THEN "Ok" ELSE "AccountNotFound",
                id |-> 0]
    /\ UNCHANGED <<active_payments, watchdog, confirm, transfer, credit,
                   tokvars, auxvars>>

\* DELETE /account: Bank::delete_account
DeleteAccount(card) ==
    LET deleted == delete_account(accounts, card) IN
    /\ accounts' = deleted.accounts
    /\ last' = [op |-> "delete_account", result |-> deleted.result, id |-> 0]
    /\ UNCHANGED <<transactions, active_payments, watchdog, confirm,
                   transfer, credit, tokvars, auxvars>>

\* requests of one kind are numbered in their order of arrival
InOrder(slots, n) == \A m \in DOMAIN slots : m < n => slots[m].pc # "idle"

\* POST /credit, first step: Bank::open_credit up to find_account
CreditFind(k, card, amount) ==
    /\ credit[k].pc = "idle"
    /\ InOrder(credit, k)
    /\ LET found == find_account(accounts, card) IN
       credit' = [credit EXCEPT ![k] =
           IF found.ok
           THEN [pc |-> "push", card |-> card, amount |-> amount,
                 account |-> found.account, result |-> NoVal]
           ELSE [IdleCredit EXCEPT !.pc = "done", !.result = found.err]]
    /\ UNCHANGED <<accounts, transactions, active_payments, watchdog,
                   confirm, transfer, last, tokvars, auxvars>>

\* open_credit whose transaction names the account itself as the sender
CreditPush_self_funded(k) ==
    /\ credit[k].pc = "push"
    /\ transactions' = Append(transactions,
                              [sender |-> credit[k].account,
                               recipient |-> credit[k].account,
                               amount |-> credit[k].amount])
    /\ credit' = [credit EXCEPT
           ![k] = [IdleCredit EXCEPT !.pc = "done", !.result = "Ok"]]
    /\ UNCHANGED <<accounts, active_payments, watchdog, confirm, transfer,
                   last, tokvars, auxvars>>

\* open_credit that pushes through new_transaction, with its checks of the
\* balance of the sender and of the amount
CreditPush_checked(k) ==
    /\ credit[k].pc = "push"
    /\ transactions' = new_transaction_log(transactions, emission_account,
                                           credit[k].account, credit[k].amount)
    /\ credit' = [credit EXCEPT
           ![k] = [IdleCredit EXCEPT !.pc = "done", !.result = "Ok"]]
    /\ UNCHANGED <<accounts, active_payments, watchdog, confirm, transfer,
                   last, tokvars, auxvars>>

\* POST /credit, second step: the push of the emission transaction
CreditPush(k) ==
    /\ credit[k].pc = "push"
    /\ transactions' = Append(transactions,
                              [sender |-> emission_account,
                               recipient |-> credit[k].account,
                               amount |-> credit[k].amount])
    /\ credit' = [credit EXCEPT
           ![k] = [IdleCredit EXCEPT !.pc = "done", !.result = "Ok"]]
    /\ UNCHANGED <<accounts, active_payments, watchdog, confirm, transfer,
                   last, tokvars, auxvars>>

\* POST /transaction, first step: find_account of the sender
TransferFindSender(x, from, to, amount) ==
    /\ transfer[x].pc = "idle"
    /\ InOrder(transfer, x)
    /\ LET found == find_account(accounts, from) IN
       transfer' = [transfer EXCEPT ![x] =
           IF found.ok
           THEN [IdleTransfer EXCEPT !.pc = "find_receiver", !.from = from,
                                     !.to = to, !.amount = amount,
                                     !.sender = found.account]
           ELSE [IdleTransfer EXCEPT !.pc = "done", !.from = from,
                                     !.result = found.err]]
    /\ UNCHANGED <<accounts, transactions, active_payments, watchdog,
                   confirm, credit, last, tokvars, auxvars>>

\* POST /transaction, second step: find_account of the receiver
TransferFindReceiver(x) ==
    /\ transfer[x].pc = "find_receiver"
    /\ LET found == find_account(accounts, transfer[x].to) IN
       transfer' = [transfer EXCEPT ![x] =
           IF found.ok
           THEN [@ EXCEPT !.pc = "transact", !.receiver = found.account]
           ELSE [IdleTransfer EXCEPT !.pc = "done", !.from = transfer[x].from,
                                     !.result = found.err]]
    /\ UNCHANGED <<accounts, transactions, active_payments, watchdog,
                   confirm, credit, last, tokvars, auxvars>>

\* POST /transaction, third step: Bank::new_transaction
TransferTransact(x) ==
    /\ transfer[x].pc = "transact"
    /\ LET t == transfer[x] IN
       /\ transactions' =
              new_transaction_log(transactions, t.sender, t.receiver, t.amount)
       /\ transfer' = [transfer EXCEPT ![x] =
              [IdleTransfer EXCEPT
                  !.pc = "done", !.from = t.from, !.to = t.to,
                  !.amount = t.amount,
                  !.result = new_transaction_result(transactions, t.sender,
                                                    t.receiver, t.amount)]]
    /\ UNCHANGED <<accounts, active_payments, watchdog, confirm, credit,
                   last, tokvars, auxvars>>

\* ───── Payment flow (routes/api.rs, routes/mod.rs, tasks.rs) ───────────── \*

\* Uuid::new_v4: an id no session has had
FreshIds == {id \in SessionIds : watchdog[id] = "none"}
NewId == CHOOSE id \in FreshIds : \A other \in FreshIds : id <= other

\* the request a merchant builds with `secret` for a payment of `amount`
MerchantRequest(amount, secret) ==
    NewInitPaymentRequest(NotificationUrl, SuccessUrl, FailUrl, amount, secret,
                          <<>>)

\* init_payment without its comparison of the tokens
InitPayment_unverified(amount, secret) ==
    /\ FreshIds # {}
    /\ active_payments' = create_payment(active_payments,
                                         MerchantRequest(amount, secret),
                                         store_account.card_number, NewId)
    /\ watchdog' = [watchdog EXCEPT ![NewId] = "sleeping"]
    /\ last' = [op |-> "init_payment", result |-> "Ok", id |-> NewId]
    /\ UNCHANGED <<accounts, transactions, confirm, transfer, credit, tokvars, auxvars>>

\* POST /Init: init_payment.  The merchant built the request with `secret`;
\* the store account is fixed, and the watchdog is spawned right after the
\* session is stored, so the handler acts in one step.
InitPayment(amount, secret) ==
    LET req == NewInitPaymentRequest(NotificationUrl, SuccessUrl, FailUrl,
                                     amount, secret, <<>>)
        token == generate_token(req, TerminalPassword)
    IN
    /\ FreshIds # {}
    /\ IF token # req.token
       THEN /\ last' = [op |-> "init_payment",
                         result |-> ApiError_into_response("UnauthorizedError"),
                         id |-> 0]
            /\ UNCHANGED <<active_payments, watchdog>>
       ELSE IF lock(poisoned) # "Ok"
       THEN /\ last' = [op |-> "init_payment",
                         result |-> ApiError_into_response("ActivePaymentsError"),
                         id |-> 0]
            /\ UNCHANGED <<active_payments, watchdog>>
       ELSE /\ active_payments' =
                   locked_create_payment(poisoned, active_payments, req,
                                         store_account.card_number, NewId)
            /\ watchdog' = [watchdog EXCEPT ![NewId] = "sleeping"]
            /\ last' = [op |-> "init_payment", result |-> "Ok", id |-> NewId]
    /\ UNCHANGED <<accounts, transactions, confirm, transfer, credit, tokvars, auxvars>>

\* a watchdog that ends without its call of remove_payment
WatchdogFire_no_remove(id) ==
    /\ watchdog[id] = "sleeping"
    /\ watchdog' = [watchdog EXCEPT ![id] = "Ok"]
    /\ UNCHANGED <<accounts, transactions, active_payments, confirm, transfer,
                   credit, last, tokvars, auxvars>>

\* watch_and_delete_active_payment, once its sleep is over: remove_payment
WatchdogFire(id) ==
    /\ watchdog[id] = "sleeping"
    /\ active_payments' = locked_remove_payment(poisoned, active_payments, id)
    /\ watchdog' = [watchdog EXCEPT
           ![id] = locked_remove_payment_result(poisoned, active_payments, id)]
    /\ UNCHANGED <<accounts, transactions, confirm, transfer, credit, last,
                   tokvars, auxvars>>

\* GET /payment_page/:id as routes/mod.rs of the acquisim backend has it:
\* the page of the session, NOT_FOUND when the registry has no such session
payment_html_page(payment_id) ==
    LET got == locked_try_acquire_payment(poisoned, active_payments,
                                          payment_id) IN
    /\ last' = [op |-> "payment_html_page",
                result |-> IF got.ok THEN "Ok" ELSE "NOT_FOUND",
                id |-> payment_id]
    /\ UNCHANGED <<accounts, transactions, active_payments, watchdog,
                   confirm, transfer, credit, tokvars, auxvars>>

\* GET /payment_page/:id as the handler that Application::build routes has
\* it: the page of the session, BAD_REQUEST when there is no such session
get_payment_html_page(payment_id) ==
    LET got == locked_try_acquire_payment(poisoned, active_payments,
                                          payment_id) IN
    /\ last' = [op |-> "get_payment_html_page",
                result |-> IF got.ok THEN "Ok" ELSE "BAD_REQUEST",
                id |-> payment_id]
    /\ UNCHANGED <<accounts, transactions, active_payments, watchdog,
                   confirm, transfer, credit, tokvars, auxvars>>

\* POST /payment/:id, first step: try_acquire_payment
ConfirmAcquire(c, payment_id, card, password) ==
    /\ confirm[c].pc = "idle"
    /\ InOrder(confirm, c)
    /\ LET got == locked_try_acquire_payment(poisoned, active_payments,
                                             payment_id) IN
       confirm' = [confirm EXCEPT ![c] =
           IF got.ok
           THEN [IdleConfirm EXCEPT !.pc = "authorize",
                                    !.payment_id = payment_id, !.card = card,
                                    !.password = password,
                                    !.payment = got.payment]
           ELSE [IdleConfirm EXCEPT !.pc = "done",
                                    !.payment_id = payment_id,
                                    !.result = "BAD_REQUEST"]]
    /\ UNCHANGED <<accounts, transactions, active_payments, watchdog,
                   transfer, credit, last, tokvars, auxvars>>

\* POST /payment/:id, second step: Bank::authorize_account
ConfirmAuthorize(c) ==
    /\ confirm[c].pc = "authorize"
    /\ LET auth == authorize_account(accounts, confirm[c].card,
                                     confirm[c].password) IN
       confirm' = [confirm EXCEPT ![c] =
           IF auth.ok
           THEN [@ EXCEPT !.pc = "transact", !.account = auth.account]
           ELSE [IdleConfirm EXCEPT !.pc = "done",
                                    !.payment_id = confirm[c].payment_id,
                                    !.result = "fail_url"]]
    /\ UNCHANGED <<accounts, transactions, active_payments, watchdog,
                   transfer, credit, last, tokvars, auxvars>>

\* POST /payment/:id, third step: the store account check and
\* Bank::new_transaction (the store account never changes, so reading it
\* and the transaction are one step)
ConfirmTransact(c) ==
    /\ confirm[c].pc = "transact"
    /\ LET payment == confirm[c].payment
           result == new_transaction_result(transactions, confirm[c].account,
                                            store_account,
                                            payment.request.amount)
       IN
       IF store_account.card_number # payment.store_card
       THEN /\ confirm' = [confirm EXCEPT ![c] =
                   [IdleConfirm EXCEPT !.pc = "done",
                                       !.payment_id = confirm[c].payment_id,
                                       !.result = "fail_url"]]
            /\ UNCHANGED transactions
       ELSE /\ transactions' =
                   new_transaction_log(transactions, confirm[c].account,
                                       store_account, payment.request.amount)
            /\ confirm' = [confirm EXCEPT
                   ![c].pc = IF result = "Ok" THEN "remove_ok" ELSE "remove",
                   ![c].result = IF result = "Ok" THEN "success_url"
                                 ELSE "fail_url"]
    /\ UNCHANGED <<accounts, active_payments, watchdog, transfer, credit,
                   last, tokvars, auxvars>>

\* POST /payment/:id, after Ok(()): remove_payment
ConfirmRemoveOk(c) ==
    /\ confirm[c].pc = "remove_ok"
    /\ active_payments' = locked_remove_payment(poisoned, active_payments,
                                                confirm[c].payment.id)
    /\ confirm' = [confirm EXCEPT ![c].pc = "remove"]
    /\ UNCHANGED <<accounts, transactions, watchdog, transfer, credit, last,
                   tokvars, auxvars>>

\* a last step of trigger_payment that answers without remove_payment
ConfirmRemove_keep(c) ==
    /\ confirm[c].pc = "remove"
    /\ confirm' = [confirm EXCEPT ![c] =
           [IdleConfirm EXCEPT !.pc = "done",
                               !.payment_id = confirm[c].payment_id,
                               !.result = confirm[c].result]]
    /\ UNCHANGED <<accounts, transactions, active_payments, watchdog,
                   transfer, credit, last, tokvars, auxvars>>

\* POST /payment/:id, last step: remove_payment, then the answer
ConfirmRemove(c) ==
    /\ confirm[c].pc = "remove"
    /\ active_payments' = locked_remove_payment(poisoned, active_payments,
                                                confirm[c].payment.id)
    /\ confirm' = [confirm EXCEPT ![c] =
           [IdleConfirm EXCEPT !.pc = "done",
                               !.payment_id = confirm[c].payment_id,
                               !.result = confirm[c].result]]
    /\ UNCHANGED <<accounts, transactions, watchdog, transfer, credit, last,
                   tokvars, auxvars>>

\* the sessions created so far
Created == SessionIds \ FreshIds

\* the payment flow, with the administrative operations that fund it
Next ==
    \/ \E password \in NewPasswords : AddAccount(password)
    \/ \E card \in AllCards : DeleteAccount(card)
    \/ \E k \in CreditIds, card \in AllCards, amount \in Amounts :
           CreditFind(k, card, amount)
    \/ \E k \in CreditIds : CreditPush(k)
    \/ \E amount \in Amounts, secret \in Secrets :
           Cardinality(Created) < FlowSessions /\ InitPayment(amount, secret)
    \/ \E id \in SessionIds : WatchdogFire(id)
    \/ \E c \in ConfirmIds, id \in 1..FlowSessions, card \in AllCards,
          password \in Passwords : ConfirmAcquire(c, id, card, password)
    \/ \E c \in ConfirmIds : ConfirmAuthorize(c)
    \/ \E c \in ConfirmIds : ConfirmTransact(c)
    \/ \E c \in ConfirmIds : ConfirmRemoveOk(c)
    \/ \E c \in ConfirmIds : ConfirmRemove(c)

Spec == Init /\ [][Next]_allvars

\* the registry with several sessions, their watchdogs and one cardholder
NextRegistry ==
    \/ \E password \in NewPasswords :
           Len(accounts) < RegAccounts /\ AddAccount(password)
    \/ \E k \in CreditIds, card \in AllCards, amount \in Amounts :
           CreditFind(k, card, amount)
    \/ \E k \in CreditIds : CreditPush(k)
    \/ \E amount \in Amounts, secret \in Secrets : InitPayment(amount, secret)
    \/ \E id \in SessionIds : WatchdogFire(id)
    \/ \E c \in 1..RegConfirms, id \in SessionIds, card \in AllCards,
          password \in Passwords : ConfirmAcquire(c, id, card, password)
    \/ \E c \in ConfirmIds : ConfirmAuthorize(c)
    \/ \E c \in ConfirmIds : ConfirmTransact(c)
    \/ \E c \in ConfirmIds : ConfirmRemoveOk(c)
    \/ \E c \in ConfirmIds : ConfirmRemove(c)

SpecRegistry == Init /\ [][NextRegistry]_allvars

\* sessions, their watchdogs and one cardholder who may confirm them
NextExpiry ==
    \/ \E password \in NewPasswords :
           Len(accounts) < RegAccounts /\ AddAccount(password)
    \/ \E k \in CreditIds, card \in AllCards, amount \in Amounts :
           CreditFind(k, card, amount)
    \/ \E k \in CreditIds : CreditPush(k)
    \/ \E amount \in Amounts, secret \in Secrets :
           Cardinality(Created) < ExpirySessions /\ InitPayment(amount, secret)
    \/ \E id \in SessionIds : WatchdogFire(id)
    \/ \E c \in 1..RegConfirms, id \in 1..ExpirySessions, card \in AllCards,
          password \in Passwords : ConfirmAcquire(c, id, card, password)
    \/ \E c \in ConfirmIds : ConfirmAuthorize(c)
    \/ \E c \in ConfirmIds : ConfirmTransact(c)
    \/ \E c \in ConfirmIds : ConfirmRemoveOk(c)
    \/ \E c \in ConfirmIds : ConfirmRemove(c)

\* the registry under fair scheduling: the task that tokio::spawn started
\* for a session runs on once its sleep is over
SpecExpiry ==
    /\ Init
    /\ [][NextExpiry]_allvars
    /\ \A id \in SessionIds : WF_watchdog(WatchdogFire(id))

\* the cardholder's side: the payment page of a session, rendered any
\* number of times, and the confirm, with the watchdogs at work
NextPage ==
    \/ NextExpiry
    \/ \E id \in 1..ExpirySessions : payment_html_page(id)
    \/ \E id \in 1..ExpirySessions : get_payment_html_page(id)

SpecPage == Init /\ [][NextPage]_allvars

\* a thread panics while it holds the guard of the session registry: the
\* std Mutex is poisoned and every later lock() answers Err
Poison ==
    /\ ~poisoned
    /\ poisoned' = TRUE
    /\ UNCHANGED <<vars, tokvars, timer, bank_guard, registry_guard, task>>

\* the payment flow with a session registry whose mutex may get poisoned
NextPoison ==
    \/ NextPage
    \/ Poison

SpecPoison == Init /\ [][NextPoison]_allvars

\* the ledger under its administrative operations
NextBank ==
    \/ \E password \in NewPasswords : AddAccount(password)
    \/ \E card \in AllCards : DeleteAccount(card)
    \/ \E k \in CreditIds, card \in AllCards, amount \in Amounts :
           CreditFind(k, card, amount)
    \/ \E k \in CreditIds : CreditPush(k)
    \/ \E x \in TransferIds, from \in AllCards, to \in AllCards,
          amount \in Amounts : TransferFindSender(x, from, to, amount)
    \/ \E x \in TransferIds : TransferFindReceiver(x)
    \/ \E x \in TransferIds : TransferTransact(x)

SpecBank == Init /\ [][NextBank]_allvars

\* BankInner.bank_username, and the usernames a caller may present
BankUsername == <<"u">>
Usernames == {<<"u">>, <<"v">>}

\* Bank::authorize_system: the username of the bank with the password of
\* the emission account
authorize_system(username, password) ==
    IF username = BankUsername /\ password = emission_account.password
    THEN "Ok" ELSE "NotAuthorized"

\* a call of Bank::authorize_system with the credentials of a request
AuthorizeSystem(username, password) ==
    /\ last' = [op |-> "authorize_system",
                result |-> authorize_system(username, password), id |-> 0]
    /\ UNCHANGED <<accounts, transactions, active_payments, watchdog,
                   confirm, transfer, credit, tokvars, auxvars>>

\* the payment flow and the administrative operations, with calls of
\* authorize_system
NextLedger ==
    \/ Next
    \/ \E username \in Usernames, password \in Secrets :
           AuthorizeSystem(username, password)

SpecLedger == Init /\ [][NextLedger]_allvars

\* ───── The watchdog and its clock (tasks.rs) ───────────────────────────── \*

\* time::Duration::hours(1), in ticks of the clock
Ttl == 2

\* created_at + 1h - now, for a task that reads the clock `elapsed` ticks
\* after created_at (negative when the clock went back)
Interval(elapsed) == Ttl - elapsed

\* a conversion that takes the magnitude of a negative interval
try_into_magnitude(interval) ==
    [ok |-> TRUE, duration |-> IF interval < 0 THEN 0 - interval ELSE interval]

\* TryFrom<time::Duration> for std::time::Duration: a std Duration has no
\* sign, the conversion of a negative interval fails
try_into(interval) ==
    IF interval < 0 THEN [ok |-> FALSE, duration |-> 0]
    ELSE [ok |-> TRUE, duration |-> interval]

\* the spawned task computes its interval: it goes to sleep for the
\* duration, or logs the error of the conversion and goes on
WatchdogStart(id, elapsed) ==
    /\ watchdog[id] = "sleeping"
    /\ timer[id].pc = "spawned"
    /\ LET duration == try_into(Interval(elapsed)) IN
       timer' = [timer EXCEPT ![id] =
           [pc |-> IF duration.ok THEN "sleep" ELSE "remove",
            interval |-> Interval(elapsed),
            left |-> duration.duration,
            slept |-> 0]]
    /\ UNCHANGED <<vars, tokvars, poisoned, bank_guard, registry_guard, task>>

\* a tick of the clock passes for the tasks that sleep
Tick ==
    /\ \E id \in SessionIds : timer[id].pc = "sleep" /\ timer[id].left > 0
    /\ timer' = [id \in SessionIds |->
           IF timer[id].pc = "sleep" /\ timer[id].left > 0
           THEN [timer[id] EXCEPT !.left = @ - 1, !.slept = @ + 1]
           ELSE timer[id]]
    /\ UNCHANGED <<vars, tokvars, poisoned, bank_guard, registry_guard, task>>

\* tokio::time::sleep(duration) is over
WatchdogWake(id) ==
    /\ timer[id].pc = "sleep"
    /\ timer[id].left = 0
    /\ timer' = [timer EXCEPT ![id].pc = "remove"]
    /\ UNCHANGED <<vars, tokvars, poisoned, bank_guard, registry_guard, task>>

\* the task calls remove_payment and ends
WatchdogRemove(id) ==
    /\ timer[id].pc = "remove"
    /\ WatchdogFire(id)

\* sessions and their watchdogs, from the spawn to the removal, with the
\* clock
NextWatch ==
    \/ \E amount \in Amounts, secret \in Secrets :
           Cardinality(Created) < ExpirySessions /\ InitPayment(amount, secret)
    \/ \E id \in SessionIds, elapsed \in (0 - 1)..(Ttl + 1) :
           WatchdogStart(id, elapsed)
    \/ Tick
    \/ \E id \in SessionIds : WatchdogWake(id)
    \/ \E id \in SessionIds : WatchdogRemove(id)

SpecWatch == Init /\ [][NextWatch]_allvars

\* ───── Locking of the ledger and of the session registry ───────────────── \*

\* the mutexes: Bank is a tokio Mutex, ActivePayments a std Mutex
Mutexes == {"bank", "registry"}

\* a guard taken and dropped: the scope of one lock() of the code
Scope(mutex) == <<[do |-> "lock", mutex |-> mutex],
                  [do |-> "unlock", mutex |-> mutex]>>

\* BasicAuthLayer of the system routes: Bank::authorize_system
SystemAuth == Scope("bank")

\* the operations whose locking is followed
Operations ==
    {"init_payment", "payment_html_page", "trigger_payment", "watchdog",
     "add_account", "delete_account", "list_accounts", "open_credit",
     "new_transaction", "list_transactions", "store_balance", "bank_emission"}

\* Bank locking in which balance takes the lock of the bank itself, under
\* the guard of its caller
LockProgram_balance_relocks(op) ==
    IF op \in {"list_accounts", "store_balance", "bank_emission"}
    THEN <<[do |-> "lock", mutex |-> "bank"]>> \o Scope("bank")
         \o <<[do |-> "unlock", mutex |-> "bank"]>>
    ELSE Scope("bank")

\* the lock() and the drop of the guard that each operation performs, in
\* the order of the code on its longest path (an early return cuts it
\* between two scopes).  Bank::balance and account_transactions receive
\* the guard of their caller; find_account, authorize_account and
\* get_store_account drop theirs before they return.
LockProgram(op) ==
    CASE op = "init_payment" -> Scope("bank") \o Scope("registry")
      [] op = "payment_html_page" -> Scope("registry")
      [] op = "trigger_payment" ->
             Scope("registry") \o Scope("bank") \o Scope("bank")
             \o Scope("bank") \o Scope("registry") \o Scope("registry")
      [] op = "watchdog" -> Scope("registry")
      [] op = "add_account" -> SystemAuth \o Scope("bank")
      [] op = "delete_account" -> SystemAuth \o Scope("bank")
      [] op = "list_accounts" -> SystemAuth \o Scope("bank")
      [] op = "open_credit" -> SystemAuth \o Scope("bank") \o Scope("bank")
      [] op = "new_transaction" ->
             SystemAuth \o Scope("bank") \o Scope("bank") \o Scope("bank")
      [] op = "list_transactions" -> SystemAuth \o Scope("bank")
      [] op = "store_balance" -> Scope("bank")
      [] op = "bank_emission" -> Scope("bank")

\* the task has an operation and has not reached its end
Running(t) ==
    task[t].op # NoVal /\ task[t].at <= Len(LockProgram(task[t].op))

\* the instruction the task is at
Instruction(t) == LockProgram(task[t].op)[task[t].at]

\* the holder of a mutex, 0 when it is free
Guard(mutex) == IF mutex = "bank" THEN bank_guard ELSE registry_guard

\* the mutexes whose guard the task holds
Holds(t) == {mutex \in Mutexes : Guard(mutex) = t}

\* a request arrives, or a watchdog is spawned: a task gets its operation
TaskStart(t, op) ==
    /\ task[t].op = NoVal
    /\ \A u \in TaskIds : u < t => task[u].op # NoVal
    /\ task' = [task EXCEPT ![t] = [op |-> op, at |-> 1]]
    /\ UNCHANGED <<vars, tokvars, poisoned, timer, bank_guard, registry_guard>>

\* lock(): the task gets the guard once the mutex is free; until then it
\* waits (the tokio Mutex is not reentrant, neither is the std Mutex)
TaskLock(t) ==
    /\ Running(t)
    /\ Instruction(t).do = "lock"
    /\ Guard(Instruction(t).mutex) = 0
    /\ bank_guard' = IF Instruction(t).mutex = "bank" THEN t ELSE bank_guard
    /\ registry_guard' =
           IF Instruction(t).mutex = "registry" THEN t ELSE registry_guard
    /\ task' = [task EXCEPT ![t].at = @ + 1]
    /\ UNCHANGED <<vars, tokvars, poisoned, timer>>

\* the guard goes out of scope
TaskUnlock(t) ==
    /\ Running(t)
    /\ Instruction(t).do = "unlock"
    /\ Guard(Instruction(t).mutex) = t
    /\ bank_guard' = IF Instruction(t).mutex = "bank" THEN 0 ELSE bank_guard
    /\ registry_guard' =
           IF Instruction(t).mutex = "registry" THEN 0 ELSE registry_guard
    /\ task' = [task EXCEPT ![t].at = @ + 1]
    /\ UNCHANGED <<vars, tokvars, poisoned, timer>>

\* concurrent tasks of any operations and their locks
NextLocks ==
    \/ \E t \in TaskIds, op \in Operations : TaskStart(t, op)
    \/ \E t \in TaskIds : TaskLock(t)
    \/ \E t \in TaskIds : TaskUnlock(t)

SpecLocks == Init /\ [][NextLocks]_allvars

\* ───── Token check of one request ──────────────────────────────────────── \*

\* the fields of a request that generate_token reads
SignedFields(req) ==
    <<req.notification_url, req.success_url, req.fail_url, req.amount>>

\* a merchant holds the fields of a request and a secret
TokInit ==
    /\ tok_pc = "new"
    /\ tok_req \in [notification_url : Urls, success_url : Urls,
                    fail_url : Urls, amount : Amounts, token : {<<>>},
                    beneficiaries : BeneficiariesSet]
    /\ tok_secret \in Secrets
    /\ tok_signed = NoVal
    /\ tok_check = NoVal

\* the merchant builds the request: InitPaymentRequest::new
TokNew ==
    /\ tok_pc = "new"
    /\ tok_req' = NewInitPaymentRequest(tok_req.notification_url,
                                        tok_req.success_url, tok_req.fail_url,
                                        tok_req.amount, tok_secret,
                                        tok_req.beneficiaries)
    /\ tok_signed' = tok_req'
    /\ tok_pc' = "signed"
    /\ UNCHANGED <<tok_secret, tok_check, vars, auxvars>>

\* on its way the request has a URL replaced; its token is kept
TokTamperUrl(field, url) ==
    /\ tok_pc = "signed"
    /\ tok_req[field] # url
    /\ tok_req' = [tok_req EXCEPT ![field] = url]
    /\ UNCHANGED <<tok_pc, tok_signed, tok_secret, tok_check, vars, auxvars>>

\* on its way the request has its amount replaced; its token is kept
TokTamperAmount(amount) ==
    /\ tok_pc = "signed"
    /\ tok_req.amount # amount
    /\ tok_req' = [tok_req EXCEPT !.amount = amount]
    /\ UNCHANGED <<tok_pc, tok_signed, tok_secret, tok_check, vars, auxvars>>

\* the receiver checks the request: validate_token with its password
TokValidate(password) ==
    /\ tok_pc = "signed"
    /\ tok_check' = [password |-> password,
                     result |-> validate_token(tok_req, password)]
    /\ tok_pc' = "validated"
    /\ UNCHANGED <<tok_req, tok_signed, tok_secret, vars, auxvars>>

NextToken ==
    \/ TokNew
    \/ \E field \in {"notification_url", "success_url", "fail_url"},
          url \in Urls : TokTamperUrl(field, url)
    \/ \E amount \in Amounts : TokTamperAmount(amount)
    \/ \E password \in Secrets : TokValidate(password)

\* no request has reached the bank; a merchant is about to sign one
InitToken == BankInit /\ TokInit /\ AuxInit

SpecToken == InitToken /\ [][NextToken]_allvars

\* ───── Token check of a split payment ───────────────────────────────────── \*

\* what the beneficiaries of a request may be replaced with on its way:
\* another share, another card token, another grouping of the same
\* characters, one beneficiary more
AlteredBeneficiaries ==
    {<<[card_token |-> <<"c">>, part |-> 50]>>,
     <<[card_token |-> <<"d">>, part |-> 100]>>,
     <<[card_token |-> <<"c">>, part |-> 50],
       [card_token |-> <<"d">>, part |-> 50]>>,
     <<[card_token |-> <<"c", "d">>, part |-> 100]>>}

\* on its way the request has its beneficiaries replaced; its token is kept
TokTamperBeneficiaries(beneficiaries) ==
    /\ tok_pc = "signed"
    /\ tok_req.beneficiaries # beneficiaries
    /\ tok_req' = [tok_req EXCEPT !.beneficiaries = beneficiaries]
    /\ UNCHANGED <<tok_pc, tok_signed, tok_secret, tok_check, vars, auxvars>>

NextSplitToken ==
    \/ TokNew
    \/ \E beneficiaries \in AlteredBeneficiaries :
           TokTamperBeneficiaries(beneficiaries)
    \/ \E password \in Secrets : TokValidate(password)

SpecSplitToken == InitToken /\ [][NextSplitToken]_allvars

\* ───── Token check of a card registration request ──────────────────────── \*

\* a merchant holds the URLs of a card registration and a secret
CardTokInit ==
    /\ tok_pc = "new"
    /\ tok_req \in [api : Apis, notification_url : Urls, success_url : Urls,
                    fail_url : Urls, token : {<<>>}]
    /\ tok_secret \in Secrets
    /\ tok_signed = NoVal
    /\ tok_check = NoVal

\* the merchant builds the request: RegisterCardTokenRequest::new
CardTokNew ==
    /\ tok_pc = "new"
    /\ tok_req' = NewRegisterCardTokenRequest(tok_req.api,
                      tok_req.notification_url, tok_req.success_url,
                      tok_req.fail_url, tok_secret)
    /\ tok_signed' = tok_req'
    /\ tok_pc' = "signed"
    /\ UNCHANGED <<tok_secret, tok_check, vars, auxvars>>

\* the receiver checks the request: validate_token with its password
CardTokValidate(password) ==
    /\ tok_pc = "signed"
    /\ tok_check' = [password |-> password,
                     result |-> RegisterCardToken_validate_token(tok_req,
                                                                 password)]
    /\ tok_pc' = "validated"
    /\ UNCHANGED <<tok_req, tok_signed, tok_secret, vars, auxvars>>

NextCardToken ==
    \/ CardTokNew
    \/ \E field \in {"notification_url", "success_url", "fail_url"},
          url \in Urls : TokTamperUrl(field, url)
    \/ \E password \in Secrets : CardTokValidate(password)

\* a merchant is about to sign a card registration request
InitCardToken == BankInit /\ CardTokInit /\ AuxInit

SpecCardToken == InitCardToken /\ [][NextCardToken]_allvars

\* ───── Claims ─────────────────────────────────────────────────────────── \*

\* C1: when raw transfers from one account run concurrently, each call
\* that debits (amount > 0, sender other than recipient) succeeds exactly
\* when the sender's balance at its commit covers the amount and appends
\* one transaction then; otherwise it answers NotEnoughFunds and appends
\* nothing; and no such call takes a balance that was >= 0 below zero.
C1_NoOverdraft ==
    [][\A x \in TransferIds :
          (/\ transfer[x].pc = "transact"
           /\ transfer'[x].pc = "done"
           /\ transfer[x].amount > 0
           /\ ~AccountEq(transfer[x].sender, transfer[x].receiver))
          => LET t == transfer[x]
                 bal == balance(transactions, t.sender)
             IN /\ bal >= t.amount =>
                      /\ transfer'[x].result = "Ok"
                      /\ transactions' =
                             Append(transactions,
                                    [sender |-> t.sender,
                                     recipient |-> t.receiver,
                                     amount |-> t.amount])
                /\ bal < t.amount =>
                      /\ transfer'[x].result = "NotEnoughFunds"
                      /\ transactions' = transactions
                /\ bal >= 0 => balance(transactions', t.sender) >= 0
      ]_allvars

\* C1: two transfers from one account have returned, one with Ok and one
\* with NotEnoughFunds
C1_Witness ==
    \E x, y \in TransferIds :
        /\ x # y
        /\ transfer[x].pc = "done" /\ transfer[y].pc = "done"
        /\ transfer[x].from = transfer[y].from
        /\ transfer[x].result = "Ok"
        /\ transfer[y].result = "NotEnoughFunds"

\* C2: of the confirms called for one session id, one succeeds and every
\* other one is answered NotFound: no two of them are redirected to the
\* success_url
C2_AtMostOneConfirmSucceeds ==
    \A c1, c2 \in ConfirmIds :
        (/\ c1 # c2
         /\ confirm[c1].pc = "done" /\ confirm[c2].pc = "done"
         /\ confirm[c1].payment_id = confirm[c2].payment_id
         /\ confirm[c1].result = "success_url")
        => confirm[c2].result # "success_url"

\* the transactions of the log that settle into the store account; only a
\* confirm produces them
StoreTransactions ==
    SelectSeq(transactions, LAMBDA tx : AccountEq(tx.recipient, store_account))

\* C3: the ledger holds at most one transaction per payment session: the
\* settlements never outnumber the sessions created
C3_OneTransactionPerSession ==
    Len(StoreTransactions) <= Cardinality(Created)

\* C4: every transaction of the log has amount > 0 and a sender other than
\* its recipient
C4_TransactionsWellFormed ==
    \A i \in 1..Len(transactions) :
        /\ transactions[i].amount > 0
        /\ ~AccountEq(transactions[i].sender, transactions[i].recipient)

\* C5: the derived balance of every account but the emission account is
\* never negative
C5_NoNegativeBalance ==
    /\ balance(transactions, store_account) >= 0
    /\ \A i \in 1..Len(accounts) : balance(transactions, accounts[i]) >= 0

\* C6: when confirm has found the session and the authorization fails,
\* the session is absent from the registry once the confirm has returned
C6_AuthFailureRemovesSession ==
    [][\A c \in ConfirmIds :
          (confirm[c].pc = "authorize" /\ confirm'[c].pc = "done")
          => confirm[c].payment_id \notin PaymentIds(active_payments')
      ]_allvars

\* C7: a confirm commits its transaction only while its session is in the
\* registry
C7_NoCommitAfterRemoval ==
    [][\A c \in ConfirmIds :
          (confirm[c].pc = "transact" /\ confirm'[c].pc = "remove_ok")
          => confirm[c].payment_id \in PaymentIds(active_payments)
      ]_allvars

\* a step in which remove_payment(id) is called: by the watchdog of the
\* session or by a confirm
RemovesPayment(id) ==
    \/ watchdog[id] = "sleeping" /\ watchdog'[id] # "sleeping"
    \/ \E c \in ConfirmIds :
          /\ confirm[c].pc \in {"remove_ok", "remove"}
          /\ confirm'[c].pc # confirm[c].pc
          /\ confirm[c].payment_id = id

\* C8: remove_payment never reports an error; for an absent id it leaves
\* the registry as it is; in every case the id is absent afterwards, at
\* most one session went, and every session with another id is kept.
C8_RemoveIdempotent ==
    [][\A id \in SessionIds :
          RemovesPayment(id)
          => /\ remove_payment_result(active_payments, id) = "Ok"
             /\ watchdog'[id] # watchdog[id] => watchdog'[id] = "Ok"
             /\ id \notin PaymentIds(active_payments)
                    => active_payments' = active_payments
             /\ id \notin PaymentIds(active_payments')
             /\ Len(active_payments') >= Len(active_payments) - 1
             /\ \A i \in 1..Len(active_payments) :
                    active_payments[i].id # id
                    => \E j \in 1..Len(active_payments') :
                           active_payments'[j] = active_payments[i]
      ]_allvars

\* C8: the watchdog of a session that a confirm had consumed has fired,
\* and another session is still in the registry
C8_Witness ==
    \E id \in SessionIds, c \in ConfirmIds :
        /\ watchdog[id] = "Ok"
        /\ confirm[c].pc = "done"
        /\ confirm[c].payment_id = id
        /\ confirm[c].result = "success_url"
        /\ active_payments # <<>>

\* C9: a request built with a secret passes validate_token with that
\* secret, whatever its fields and its beneficiaries
C9_TokenRoundTrip ==
    (/\ tok_pc = "validated"
     /\ tok_req = tok_signed
     /\ tok_check.password = tok_secret)
    => tok_check.result = "Ok"

\* C9: an untouched request was validated with the secret that signed it
C9_Witness ==
    /\ tok_pc = "validated"
    /\ tok_req = tok_signed
    /\ tok_req.beneficiaries # <<>>
    /\ tok_check.password = tok_secret
    /\ tok_check.result = "Ok"

\* C10: a request in which signed fields were changed, one or several,
\* while its token was kept fails validate_token with the signing secret
C10_TamperDetected ==
    (/\ tok_pc = "validated"
     /\ tok_check.password = tok_secret
     /\ SignedFields(tok_req) # SignedFields(tok_signed))
    => tok_check.result = "Err"

\* the passwords a caller may present: those of requests and the secrets
AnyPasswords == Passwords \cup NewPasswords \cup Secrets

DeletedLockout(accs, card) ==
    /\ AccountIndex(accs, card) # 0
    /\ ~find_account(accs, card).ok
    /\ \A p \in AnyPasswords : ~authorize_account(accs, card, p).ok

\* a transaction that mentions the account of that card
Mentions(tx, card) == tx.sender.card_number = card \/ tx.recipient.card_number = card

\* a step in which delete_account(card) answers Ok
DeleteSucceeds(card) ==
    /\ AccountIndex(accounts, card) # 0
    /\ last' = [op |-> "delete_account", result |-> "Ok", id |-> 0]
    /\ accounts' = [accounts EXCEPT
           ![AccountIndex(accounts, card)].is_existing = FALSE]

\* C12: once delete_account(card) has succeeded the account is locked out
\* in that state and in every later one, and every transaction of the log
\* that mentions it stays in the log
C12_DeletedAccountLockout ==
    [][<<last, accounts, transactions>>' # <<last, accounts, transactions>>
       => \A card \in AllCards :
             (\/ DeleteSucceeds(card)
              \/ DeletedLockout(accounts, card))
             => /\ DeletedLockout(accounts', card)
                /\ \A i \in 1..Len(transactions) :
                       Mentions(transactions[i], card)
                       => /\ i <= Len(transactions')
                          /\ transactions'[i] = transactions[i]
      ]_<<last, accounts, transactions>>

\* C12: a transfer from a deleted account that holds credit was refused
\* with AccountIsDeleted, and the credit is still in the log
C12_Witness ==
    \E x \in TransferIds, i \in 1..Len(transactions) :
        /\ transfer[x].pc = "done"
        /\ transfer[x].result = "AccountIsDeleted"
        /\ DeletedLockout(accounts, transfer[x].from)
        /\ Mentions(transactions[i], transfer[x].from)

\* the positions of the /transaction requests
transfer_pc == [x \in TransferIds |-> transfer[x].pc]

\* C13: new_transaction(A, A, amount) answers BadTransaction for every
\* account and every amount, and changes neither the accounts nor the log
C13_SelfTransferRejected ==
    [][\A x \in TransferIds :
          (/\ transfer[x].pc = "transact"
           /\ transfer'[x].pc = "done"
           /\ AccountEq(transfer[x].sender, transfer[x].receiver))
          => /\ transfer'[x].result = "BadTransaction"
             /\ UNCHANGED <<accounts, transactions>>
      ]_<<transfer_pc, accounts, transactions>>

\* C13: a transfer of a positive amount from a funded account to itself
\* was answered BadTransaction
C13_Witness ==
    \E x \in TransferIds, i \in 1..Len(accounts) :
        /\ transfer[x].pc = "done"
        /\ transfer[x].from = transfer[x].to
        /\ transfer[x].from = accounts[i].card_number
        /\ transfer[x].amount > 0
        /\ balance(transactions, accounts[i]) >= transfer[x].amount
        /\ transfer[x].result = "BadTransaction"

\* C14: new_transaction with amount <= 0 answers BadTransaction, never
\* NotEnoughFunds and never Ok, and appends nothing to the log
C14_NonPositiveAmountRejected ==
    [][\A x \in TransferIds :
          (/\ transfer[x].pc = "transact"
           /\ transfer'[x].pc = "done"
           /\ transfer[x].amount <= 0)
          => /\ transfer'[x].result = "BadTransaction"
             /\ transactions' = transactions
      ]_<<transfer_pc, accounts, transactions>>

\* the positions of the trigger_payment requests
confirm_pc == [c \in ConfirmIds |-> confirm[c].pc]

\* the ledger of the happy path before the confirm: one account, not
\* deleted, and a log that holds exactly its credit of `amount`
HappyLedger(amount) ==
    /\ Len(accounts) = 1
    /\ accounts[1].is_existing
    /\ transactions = <<[sender |-> emission_account,
                         recipient |-> accounts[1], amount |-> amount]>>

\* the transaction that settles `amount` from the account into the store
Settlement(account, amount) ==
    [sender |-> account, recipient |-> store_account, amount |-> amount]

\* C15: happy path.  With one account X, credited with a positive amount,
\* and a session of that amount: the confirm with X's card and password
\* finds the session, is authorized as X, appends the one transaction
\* X -> store of the amount and answers with the success_url; when it has
\* returned the session is absent, balance(X) = 0 and the store balance
\* is the amount.
C15_HappyPath ==
    [][\A c \in ConfirmIds, amount \in 1..MaxAmount :
          /\ (/\ confirm[c].pc = "idle" /\ confirm'[c].pc # "idle"
              /\ confirm'[c].payment_id \in PaymentIds(active_payments))
             => confirm'[c].pc = "authorize"
          /\ (/\ confirm[c].pc = "authorize" /\ confirm'[c].pc # "authorize"
              /\ HappyLedger(amount)
              /\ confirm[c].card = accounts[1].card_number
              /\ confirm[c].password = accounts[1].password)
             => /\ confirm'[c].pc = "transact"
                /\ confirm'[c].account = accounts[1]
          /\ (/\ confirm[c].pc = "transact" /\ confirm'[c].pc # "transact"
              /\ HappyLedger(amount)
              /\ confirm[c].account = accounts[1]
              /\ confirm[c].payment.request.amount = amount)
             => /\ confirm'[c].pc = "remove_ok"
                /\ confirm'[c].result = "success_url"
                /\ transactions' =
                       Append(transactions, Settlement(accounts[1], amount))
                /\ Len(StoreTransactions') = 1
          /\ (confirm[c].pc = "remove_ok" /\ confirm'[c].pc # "remove_ok")
             => /\ confirm'[c].pc = "remove"
                /\ confirm[c].payment_id \notin PaymentIds(active_payments')
          /\ (/\ confirm[c].pc = "remove" /\ confirm'[c].pc # "remove"
              /\ confirm[c].result = "success_url")
             => /\ confirm'[c].pc = "done"
                /\ confirm'[c].result = "success_url"
                /\ confirm[c].payment_id \notin PaymentIds(active_payments')
                /\ (/\ Len(accounts) = 1
                    /\ transactions =
                           <<[sender |-> emission_account,
                              recipient |-> accounts[1], amount |-> amount],
                             Settlement(accounts[1], amount)>>)
                   => /\ balance(transactions', accounts'[1]) = 0
                      /\ balance(transactions', store_account) = amount
      ]_<<confirm_pc, transactions, active_payments>>

\* C15: the happy path has run to its end with the largest amount: the
\* log holds the credit and the settlement, the confirm was redirected to
\* the success_url, no session is left and the money is in the store
C15_Witness ==
    /\ Len(accounts) = 1
    /\ transactions = <<[sender |-> emission_account,
                         recipient |-> accounts[1], amount |-> MaxAmount],
                        Settlement(accounts[1], MaxAmount)>>
    /\ confirm[1].pc = "done"
    /\ confirm[1].result = "success_url"
    /\ \A c \in ConfirmIds \ {1} : confirm[c].pc = "idle"
    /\ active_payments = <<>>
    /\ Created = {1}
    /\ balance(transactions, accounts[1]) = 0
    /\ balance(transactions, store_account) = MaxAmount

\* C16: under fair scheduling every session of the registry is eventually
\* absent from it, removed by a confirm or, with no cardholder action, by
\* its watchdog; and the id of a session that is absent never reappears
C16_SessionsExpire ==
    /\ \A id \in SessionIds :
           (id \in PaymentIds(active_payments))
               ~> (id \notin PaymentIds(active_payments))
    /\ [][\A id \in SessionIds :
              (id \in Created /\ id \notin PaymentIds(active_payments))
              => id \notin PaymentIds(active_payments')
         ]_<<active_payments, watchdog>>

\* C16: a session that no confirm was called for has been removed by its
\* watchdog
C16_Witness ==
    \E id \in SessionIds :
        /\ watchdog[id] = "Ok"
        /\ id \notin PaymentIds(active_payments)
        /\ \A c \in ConfirmIds : confirm[c].pc = "idle"

\* C17: a confirm for a session id that is not in the registry is
\* answered BAD_REQUEST at once and changes neither the ledger nor the
\* registry; having answered, it does nothing more
C17_AbsentSessionRejected ==
    [][\A c \in ConfirmIds :
          /\ (/\ confirm[c].pc = "idle" /\ confirm'[c].pc # "idle"
              /\ confirm'[c].payment_id \notin PaymentIds(active_payments))
             => /\ confirm'[c].pc = "done"
                /\ confirm'[c].result = "BAD_REQUEST"
                /\ UNCHANGED <<accounts, transactions, active_payments,
                               watchdog>>
          /\ confirm[c].pc = "done" => confirm'[c] = confirm[c]
      ]_<<confirm, accounts, transactions, active_payments, watchdog>>

\* C17: a confirm for a session that an earlier confirm had consumed, and
\* whose watchdog had not fired yet, was answered BAD_REQUEST
C17_Witness ==
    \E c1, c2 \in ConfirmIds :
        /\ confirm[c1].pc = "done" /\ confirm[c1].result = "success_url"
        /\ confirm[c2].pc = "done" /\ confirm[c2].result = "BAD_REQUEST"
        /\ confirm[c1].payment_id = confirm[c2].payment_id
        /\ watchdog[confirm[c1].payment_id] = "sleeping"

\* C18: every step leaves the log as a prefix of the new log: no
\* transaction is modified, reordered or removed, also when an account
\* that it mentions is deleted
C18_LogAppendOnly ==
    [][/\ Len(transactions) <= Len(transactions')
       /\ SubSeq(transactions', 1, Len(transactions)) = transactions
      ]_<<transactions, accounts>>

\* C18: an account was deleted after the log had recorded its credit and
\* a transfer of it, and both transactions are in the log as they were
C18_Witness ==
    /\ last = [op |-> "delete_account", result |-> "Ok", id |-> 0]
    /\ Len(transactions) >= 2
    /\ \E i \in 1..Len(accounts) :
           /\ ~accounts[i].is_existing
           /\ Mentions(transactions[1], accounts[i].card_number)
           /\ Mentions(transactions[2], accounts[i].card_number)
           /\ transactions[1].recipient.is_existing

\* a step in which the payment page of a session is rendered
Renders(id) ==
    /\ last' # last
    /\ last'.op \in {"payment_html_page", "get_payment_html_page"}
    /\ last'.id = id

\* C19: rendering the payment page leaves the registry and the ledger as
\* they are: a session that is rendered is still present afterwards, with
\* its amount, and the answer for an absent session is NotFound
C19_RenderIsPeek ==
    [][\A id \in SessionIds :
          Renders(id)
          => /\ UNCHANGED <<active_payments, watchdog, accounts, transactions,
                            confirm_pc>>
             /\ id \in PaymentIds(active_payments) => last'.result = "Ok"
             /\ id \notin PaymentIds(active_payments)
                    => last'.result = "NOT_FOUND"
      ]_last

\* C20: once a confirm has found its session it answers with a redirect:
\* to the success_url exactly when it appended the transaction of the
\* session's amount from the authorized account to the store account, to
\* the fail_url otherwise (authorization failure, store account mismatch,
\* ledger error), and then it has appended nothing
C20_RedirectMatchesLedger ==
    [][\A c \in ConfirmIds :
          /\ (confirm[c].pc = "authorize" /\ confirm'[c].pc # "authorize")
             => /\ transactions' = transactions
                /\ \/ confirm'[c].pc = "transact"
                   \/ /\ confirm'[c].pc = "done"
                      /\ confirm'[c].result = "fail_url"
          /\ (confirm[c].pc = "transact" /\ confirm'[c].pc # "transact")
             => \/ /\ confirm'[c].pc = "remove_ok"
                   /\ confirm'[c].result = "success_url"
                   /\ transactions' =
                          Append(transactions,
                                 Settlement(confirm[c].account,
                                     confirm[c].payment.request.amount))
                \/ /\ confirm'[c].pc \in {"remove", "done"}
                   /\ confirm'[c].result = "fail_url"
                   /\ transactions' = transactions
          /\ (/\ confirm[c].pc \in {"remove_ok", "remove"}
              /\ confirm'[c].pc # confirm[c].pc)
             => /\ transactions' = transactions
                /\ confirm'[c].result = confirm[c].result
                /\ confirm'[c].result \in {"success_url", "fail_url"}
      ]_<<confirm_pc, transactions>>

\* C20: of two confirms that found their session one was redirected to
\* the success_url and one to the fail_url, and the log holds the one
\* settlement
C20_Witness ==
    \E c1, c2 \in ConfirmIds :
        /\ confirm[c1].pc = "done" /\ confirm[c1].result = "success_url"
        /\ confirm[c2].pc = "done" /\ confirm[c2].result = "fail_url"
        /\ Len(StoreTransactions) = 1

\* C21: when the ledger transfer of a confirm fails (NotEnoughFunds, a
\* non-positive amount), the log is left as it was, so the balances of the
\* cardholder and of the store account are unchanged, the confirm goes on
\* to remove the session and, when it answers with the fail_url, the
\* session is absent from the registry
C21_FailedTransferRemovesSession ==
    [][\A c \in ConfirmIds :
          /\ (/\ confirm[c].pc = "transact" /\ confirm'[c].pc # "transact"
              /\ confirm[c].payment.store_card = store_account.card_number
              /\ new_transaction_result(transactions, confirm[c].account,
                     store_account, confirm[c].payment.request.amount) # "Ok")
             => /\ confirm'[c].pc = "remove"
                /\ confirm'[c].result = "fail_url"
                /\ transactions' = transactions
                /\ balance(transactions', confirm[c].account) =
                       balance(transactions, confirm[c].account)
                /\ balance(transactions', store_account) =
                       balance(transactions, store_account)
          /\ (/\ confirm[c].pc = "remove" /\ confirm'[c].pc # "remove"
              /\ confirm[c].result = "fail_url")
             => /\ confirm'[c].pc = "done"
                /\ confirm'[c].result = "fail_url"
                /\ transactions' = transactions
                /\ confirm[c].payment_id \notin PaymentIds(active_payments')
      ]_<<confirm_pc, transactions, active_payments>>

\* C21: a confirm by an account without funds was redirected to the
\* fail_url and its session is gone although the watchdog still sleeps
C21_Witness ==
    /\ Len(accounts) = 1
    /\ accounts[1].is_existing
    /\ transactions = <<>>
    /\ confirm[1].pc = "done"
    /\ confirm[1].result = "fail_url"
    /\ \A c \in ConfirmIds \ {1} : confirm[c].pc = "idle"
    /\ Created = {1}
    /\ watchdog[1] = "sleeping"
    /\ active_payments = <<>>

\* the account with `card` is in the ledger and marked deleted
MarkedDeleted(accs, card) ==
    \E i \in 1..Len(accs) :
        accs[i].card_number = card /\ ~accs[i].is_existing

\* C22: no transaction is ever appended whose sender or recipient is an
\* account marked deleted at the moment of the append, whatever the
\* interleaving of delete_account with the requests that append
C22_NoAppendForDeleted ==
    [][transactions' # transactions
       => LET tx == transactions'[Len(transactions')] IN
          /\ ~MarkedDeleted(accounts, tx.sender.card_number)
          /\ ~MarkedDeleted(accounts, tx.recipient.card_number)
      ]_transactions

\* the accounts that have `card`
WithCard(accs, card) == {i \in 1..Len(accs) : accs[i].card_number = card}

C24_AuthorizeAccount ==
    [][\A c \in ConfirmIds :
          (confirm[c].pc = "authorize" /\ confirm'[c].pc # "authorize")
          => LET card == confirm[c].card
                 hits == WithCard(accounts, card)
             IN
             /\ accounts' = accounts
             /\ transactions' = transactions
             /\ \A password \in AnyPasswords \cup {confirm[c].password} :
                    LET auth == authorize_account(accounts, card, password) IN
                    /\ hits = {} => ~auth.ok /\ auth.err = "AccountNotFound"
                    /\ \A i \in hits :
                           /\ ~accounts[i].is_existing
                              => ~auth.ok /\ auth.err = "AccountIsDeleted"
                           /\ (/\ accounts[i].is_existing
                               /\ accounts[i].password # password)
                              => ~auth.ok /\ auth.err = "NotAuthorized"
                           /\ (/\ accounts[i].is_existing
                               /\ accounts[i].password = password)
                              => auth.ok /\ auth.account = accounts[i]
             /\ confirm'[c].pc = "transact"
                <=> \E i \in hits : /\ accounts[i].is_existing
                                    /\ accounts[i].password = confirm[c].password
             /\ confirm'[c].pc = "transact"
                => \E i \in hits : confirm'[c].account = accounts[i]
      ]_<<confirm_pc, accounts, transactions>>

\* C24: one confirm was authorized and stands before its transfer, one
\* was refused and its session is still in the registry, and the ledger
\* holds a deleted account
C24_Witness ==
    \E c1, c2 \in ConfirmIds :
        /\ confirm[c1].pc = "transact"
        /\ confirm[c2].pc = "done" /\ confirm[c2].result = "fail_url"
        /\ confirm[c2].payment_id \in PaymentIds(active_payments)
        /\ \E i \in 1..Len(accounts) : ~accounts[i].is_existing

\* the positions of the /credit requests
credit_pc == [k \in CreditIds |-> credit[k].pc]

\* C25: open_credit(card, amount) on an account that find_account finds
\* existing appends exactly one transaction, from the emission account to
\* that account, of the amount, with no look at the balance of the
\* emission account, and the balance of the account rises by the amount;
\* on an unknown card it answers AccountNotFound, on a deleted one
\* AccountIsDeleted, and the log is left as it was
C25_OpenCredit ==
    [][\A k \in CreditIds :
          /\ (credit[k].pc = "idle" /\ credit'[k].pc # "idle")
             => /\ transactions' = transactions
                /\ \A card \in AllCards :
                       LET found == find_account(accounts, card) IN
                       /\ WithCard(accounts, card) = {}
                          => ~found.ok /\ found.err = "AccountNotFound"
                       /\ \A i \in WithCard(accounts, card) :
                              IF accounts[i].is_existing
                              THEN found.ok /\ found.account = accounts[i]
                              ELSE ~found.ok /\ found.err = "AccountIsDeleted"
                /\ \/ /\ credit'[k].pc = "push"
                      /\ \E i \in WithCard(accounts, credit'[k].card) :
                             /\ accounts[i].is_existing
                             /\ credit'[k].account = accounts[i]
                   \/ /\ credit'[k].pc = "done"
                      /\ credit'[k].result = "AccountNotFound"
                      /\ \E card \in AllCards : WithCard(accounts, card) = {}
                   \/ /\ credit'[k].pc = "done"
                      /\ credit'[k].result = "AccountIsDeleted"
                      /\ \E i \in 1..Len(accounts) : ~accounts[i].is_existing
          /\ (credit[k].pc = "push" /\ credit'[k].pc # "push")
             => /\ credit'[k].pc = "done"
                /\ credit'[k].result = "Ok"
                /\ transactions' =
                       Append(transactions,
                              [sender |-> emission_account,
                               recipient |-> credit[k].account,
                               amount |-> credit[k].amount])
                /\ balance(transactions', credit[k].account) =
                       balance(transactions, credit[k].account)
                           + credit[k].amount
      ]_<<credit_pc, transactions>>

\* C25: a credit has been granted although the emission account had
\* nothing: its balance is now negative
C25_Witness ==
    /\ credit[1].pc = "done"
    /\ credit[1].result = "Ok"
    /\ transactions # <<>>
    /\ balance(transactions, emission_account) < 0

\* the sum of the amounts of the transactions of `txs` whose `role`
\* ("sender" or "recipient") is the account with `card`
RECURSIVE SumWhere(_, _, _)
SumWhere(txs, role, card) ==
    IF txs = <<>> THEN 0
    ELSE (IF Head(txs)[role].card_number = card THEN Head(txs).amount ELSE 0)
         + SumWhere(Tail(txs), role, card)

\* what the log says the account with `card` holds
Net(txs, card) == SumWhere(txs, "recipient", card) - SumWhere(txs, "sender", card)

\* C26: in every ledger state the balance reported for an account, by
\* balance, store_balance, bank_emission and list_accounts, is the sum of
\* the amounts of the logged transactions it receives minus the sum of
\* those it sends; a transaction that does not mention the account counts
\* for nothing
C26_BalanceIsNet ==
    /\ \A i \in 1..Len(accounts) :
           /\ balance(transactions, accounts[i]) =
                  Net(transactions, accounts[i].card_number)
           /\ list_accounts(accounts, transactions)[i].balance =
                  Net(transactions, accounts[i].card_number)
           /\ balance(SelectSeq(transactions,
                          LAMBDA tx : Mentions(tx, accounts[i].card_number)),
                      accounts[i]) = balance(transactions, accounts[i])
    /\ store_balance(transactions) = Net(transactions, StoreCard)
    /\ bank_emission(transactions) = Net(transactions, EmissionCard)

\* C26: an account was credited and has paid, so the store holds money,
\* the emission account is in debt and the log has a transaction that
\* does not mention the store
C26_Witness ==
    /\ store_balance(transactions) > 0
    /\ bank_emission(transactions) < 0
    /\ \E i \in 1..Len(accounts) :
           /\ SumWhere(transactions, "recipient", accounts[i].card_number) > 0
           /\ SumWhere(transactions, "sender", accounts[i].card_number) > 0

\* C27: a failure to take the lock of the session registry (the mutex is
\* poisoned) during initiate, page render or confirm is answered with an
\* internal error (HTTP 500), not with the NotFound or BadRequest that an
\* absent session gets
C27_LockFailureIsInternalError ==
    [][poisoned
       => /\ (last' # last /\ last'.result # "Unauthorized")
             => last'.result = "INTERNAL_SERVER_ERROR"
          /\ \A c \in ConfirmIds :
                 (confirm[c].pc = "idle" /\ confirm'[c].pc # "idle")
                 => confirm'[c].result = "INTERNAL_SERVER_ERROR"
      ]_<<last, confirm_pc>>

\* the task stands before a lock() that another guard keeps it from
Waits(t) ==
    /\ Running(t)
    /\ Instruction(t).do = "lock"
    /\ Guard(Instruction(t).mutex) # 0

\* C28: no task stands at a lock() while it holds a guard: the guard of
\* the session registry is never held by a task that waits for the lock
\* of the ledger, nor the reverse, and no operation takes the lock of the
\* ledger a second time under its own guard; so whatever the
\* interleaving, as long as a task has not finished some task can move
C28_NoDeadlock ==
    /\ \A t \in TaskIds :
           (Running(t) /\ Instruction(t).do = "lock") => Holds(t) = {}
    /\ (\E t \in TaskIds : Running(t))
       => \E t \in TaskIds : ENABLED TaskLock(t) \/ ENABLED TaskUnlock(t)

\* C28: a confirm holds the guard of the ledger inside new_transaction,
\* a watchdog holds the guard of the registry, and a page render waits
\* for the registry
C28_Witness ==
    \E t1, t2, t3 \in TaskIds :
        /\ task[t1].op = "trigger_payment" /\ task[t1].at = 8
        /\ bank_guard = t1
        /\ task[t2].op = "watchdog" /\ registry_guard = t2
        /\ task[t3].op = "payment_html_page" /\ Waits(t3)

\* C29: when the interval created_at + TTL - now that the watchdog
\* computes at its start is zero or negative, the task does not sleep: no
\* tick passes before it can call remove_payment, and it does call it;
\* once the task has ended the session is absent
C29_ExpiredAtStart ==
    \A id \in SessionIds :
        (timer[id].pc # "spawned" /\ timer[id].interval <= 0)
        => /\ timer[id].slept = 0
           /\ timer[id].left = 0
           /\ watchdog[id] = "sleeping"
              => ENABLED WatchdogWake(id) \/ ENABLED WatchdogRemove(id)
           /\ watchdog[id] # "sleeping"
              => /\ watchdog[id] = "Ok"
                 /\ id \notin PaymentIds(active_payments)

\* C29: the watchdog of one session started after the TTL, that of
\* another exactly at the TTL; both have removed their session without
\* a tick of sleep
C29_Witness ==
    \E id1, id2 \in SessionIds :
        /\ timer[id1].pc = "remove" /\ timer[id1].interval < 0
        /\ timer[id2].pc = "remove" /\ timer[id2].interval = 0
        /\ watchdog[id1] = "Ok" /\ watchdog[id2] = "Ok"
        /\ timer[id1].slept = 0 /\ timer[id2].slept = 0
        /\ active_payments = <<>>

\* C30: every URL of a RegisterCardTokenRequest is part of what its token
\* signs: a request whose success_url or fail_url was changed while its
\* token was kept fails validate_token with the signing secret
C30_CardTokenCoversUrls ==
    (/\ tok_pc = "validated"
     /\ tok_check.password = tok_secret
     /\ \/ tok_req.success_url # tok_signed.success_url
        \/ tok_req.fail_url # tok_signed.fail_url)
    => tok_check.result = "Err"

\* C31: a request with beneficiaries whose beneficiaries were changed (a
\* card token, a share, the grouping of the card tokens) while its token
\* was kept fails validate_token with the signing secret
C31_BeneficiariesSigned ==
    (/\ tok_pc = "validated"
     /\ tok_check.password = tok_secret
     /\ tok_signed.beneficiaries # <<>>
     /\ tok_req.beneficiaries # tok_signed.beneficiaries)
    => tok_check.result = "Err"

\* the sum of the balances of the accounts of the collection
RECURSIVE SumBalances(_, _)
SumBalances(accs, txs) ==
    IF accs = <<>> THEN 0
    ELSE balance(txs, Head(accs)) + SumBalances(Tail(accs), txs)

\* all the money of the bank: the accounts of the collection, the store
\* account and the emission account
TotalBalance ==
    SumBalances(accounts, transactions) + store_balance(transactions)
        + bank_emission(transactions)

\* C32: in every reachable state the balances of all accounts, the store
\* account and the emission account included, sum to zero: what any
\* account holds is a debit of the emission account
C32_MoneyConserved == TotalBalance = 0

\* C32: an account holds money, the store holds money and the emission
\* account owes both
C32_Witness ==
    /\ TotalBalance = 0
    /\ store_balance(transactions) > 0
    /\ SumBalances(accounts, transactions) > 0
    /\ bank_emission(transactions) =
           0 - (store_balance(transactions)
                + SumBalances(accounts, transactions))

\* the emission and the store account are out of reach of the operations
\* that take a card: not found, not authorized with any password, their
\* own included, and not deleted
BootstrapOutOfReach(accs) ==
    \A card \in {EmissionCard, StoreCard} :
        /\ ~find_account(accs, card).ok
        /\ find_account(accs, card).err = "AccountNotFound"
        /\ \A password \in AnyPasswords \cup {CashboxPass} :
               ~authorize_account(accs, card, password).ok
        /\ delete_account(accs, card) =
               [accounts |-> accs, result |-> "AccountNotFound"]

\* C33: in every logged transaction the store account is not the sender
\* and the emission account is not the recipient; the store balance never
\* decreases and changes only in the step of a confirm whose transfer
\* succeeds, the emission balance changes only in the push of an
\* open_credit; neither account can be found, authorized or deleted
C33_BootstrapAccounts ==
    [][(transactions' # transactions \/ accounts' # accounts)
       => /\ \A i \in 1..Len(transactions') :
                 /\ transactions'[i].sender.card_number # StoreCard
                 /\ transactions'[i].recipient.card_number # EmissionCard
          /\ store_balance(transactions') >= store_balance(transactions)
          /\ store_balance(transactions') # store_balance(transactions)
             => \E c \in ConfirmIds :
                    /\ confirm[c].pc = "transact"
                    /\ confirm'[c].pc = "remove_ok"
                    /\ confirm'[c].result = "success_url"
          /\ bank_emission(transactions') # bank_emission(transactions)
             => \E k \in CreditIds :
                    credit[k].pc = "push" /\ credit'[k].pc = "done"
          /\ BootstrapOutOfReach(accounts')
      ]_<<transactions, accounts>>

\* C33: the store holds money, the emission account is in debt, and with
\* every card of the collection taken a delete_account has answered
\* AccountNotFound
C33_Witness ==
    /\ store_balance(transactions) > 0
    /\ bank_emission(transactions) < 0
    /\ Len(accounts) = MaxAccounts
    /\ last = [op |-> "delete_account", result |-> "AccountNotFound", id |-> 0]

\* C34: an account that has been deleted stays deleted in every later
\* state, and no account ever leaves the collection: every step keeps the
\* accounts in their places, with their cards and passwords, and keeps
\* the flag of a deleted one
C34_DeletedStaysDeleted ==
    [][/\ Len(accounts') >= Len(accounts)
       /\ \A i \in 1..Len(accounts) :
              /\ i <= Len(accounts')
              /\ accounts'[i].card_number = accounts[i].card_number
              /\ accounts'[i].password = accounts[i].password
              /\ ~accounts[i].is_existing => ~accounts'[i].is_existing
      ]_accounts

\* C34: after the first account was deleted a second one was added and a
\* credit for the first was answered AccountIsDeleted
C34_Witness ==
    /\ Len(accounts) = 2
    /\ ~accounts[1].is_existing
    /\ accounts[2].is_existing
    /\ credit[1].pc = "done"
    /\ credit[1].result = "AccountIsDeleted"

\* the errors of the ledger operations
BankOperationErrors ==
    {"AccountNotFound", "AccountIsDeleted", "NotAuthorized", "BadTransaction",
     "NotEnoughFunds"}

\* a step in which a ledger operation returns an error: delete_account or
\* authorize_system (seen in their answer), open_credit at its
\* find_account, authorize_account and new_transaction in a confirm
ReturnsError ==
    \/ /\ last' # last
       /\ last'.op \in {"delete_account", "authorize_system"}
       /\ last'.result \in BankOperationErrors
    \/ \E k \in CreditIds :
           /\ credit[k].pc = "idle" /\ credit'[k].pc = "done"
           /\ credit'[k].result \in BankOperationErrors
    \/ \E c \in ConfirmIds :
           /\ confirm[c].pc = "authorize" /\ confirm'[c].pc = "done"
           /\ ~authorize_account(accounts, confirm[c].card,
                                 confirm[c].password).ok
    \/ \E c \in ConfirmIds :
           /\ confirm[c].pc = "transact" /\ confirm'[c].pc = "remove"
           /\ new_transaction_result(transactions, confirm[c].account,
                  store_account, confirm[c].payment.request.amount)
                  \in BankOperationErrors

\* C35: every ledger operation that returns an error (new_transaction,
\* open_credit, delete_account, find_account, authorize_account,
\* authorize_system) leaves the account collection and the transaction
\* log exactly as they were
C35_ErrorsChangeNothing ==
    [][ReturnsError => accounts' = accounts /\ transactions' = transactions
      ]_<<last, credit_pc, confirm_pc, accounts, transactions>>

\* C35: a system request was refused, a credit was refused, a confirm
\* was refused for lack of funds, and the ledger holds an account and no
\* transaction
C35_Witness ==
    /\ last = [op |-> "authorize_system", result |-> "NotAuthorized", id |-> 0]
    /\ credit[1].pc = "done" /\ credit[1].result \in BankOperationErrors
    /\ \E c \in ConfirmIds :
           confirm[c].pc = "remove" /\ confirm[c].result = "fail_url"
    /\ Len(accounts) = 1
    /\ transactions = <<>>

====
